---------------------------- MODULE Spec2Model ----------------------------
(***************************************************************************)
(* A model of the PhishSense detection engine (src/phishing_detector.py)   *)
(* and of its callers in src/app.py.                                       *)
(*                                                                         *)
(* Text is a sequence of characters, each character a string symbol: an    *)
(* ASCII character is the one-character string, the dotless i (U+0131) is  *)
(* "<U+0131>", the grave accent (U+0060) is "<U+0060>" and the            *)
(* replacement character is "<U+FFFD>".  A Python float is a fixed-point   *)
(* integer: keyword weights and scores count tenths, ratios and the        *)
(* intermediate values of the score count 1/Scale.                         *)
(***************************************************************************)
EXTENDS Integers, Sequences, FiniteSets, TLC

VARIABLES
    pc,              \* per call: the position of the call inside detect_phishing
    text,            \* per call: the argument of detect
    detector,        \* per call: the PhishingDetector the call constructed
    processed_text,  \* per call: local processed_text of detect
    features,        \* per call: local features of detect
    risk_score,      \* per call: local risk_score of detect (tenths)
    result           \* per call: what the call returned or raised

vars == <<pc, text, detector, processed_text, features, risk_score, result>>

(***************************************************************************)
(* Bounds of the model.                                                    *)
(***************************************************************************)
MaxFrags == 3        \* a message is built from at most this many fragments
MaxConcTexts == 4    \* messages the concurrent calls choose from
MaxTime == 1         \* wall-clock readings are 0..MaxTime
MaxKeywords == 2     \* keywords per category in an enumerated feature record
MaxUrls == 1         \* URLs in an enumerated feature record
MaxExcl == 1         \* exclamation marks in an enumerated feature record

Min(a, b) == IF a < b THEN a ELSE b
Max(a, b) == IF a > b THEN a ELSE b

(***************************************************************************)
(* Characters: the classes Python's str methods, re and string use.        *)
(***************************************************************************)
ascii_uppercase ==
  << "A", "B", "C", "D", "E", "F", "G", "H", "I", "J", "K", "L", "M",
     "N", "O", "P", "Q", "R", "S", "T", "U", "V", "W", "X", "Y", "Z" >>

ascii_lowercase ==
  << "a", "b", "c", "d", "e", "f", "g", "h", "i", "j", "k", "l", "m",
     "n", "o", "p", "q", "r", "s", "t", "u", "v", "w", "x", "y", "z" >>

digits == {"0", "1", "2", "3", "4", "5", "6", "7", "8", "9"}

punctuation ==
  {"!", "\"", "#", "$", "%", "&", "'", "(", ")", "*", "+", ",", "-", ".",
   "/", ":", ";", "<", "=", ">", "?", "@", "[", "\\", "]", "^", "_", "<U+0060>",
   "{", "|", "}", "~"}

whitespace == {" ", "\t", "\n", "\r", "\f"}

\* The characters 0x20..0x7E in code order: Printable[code - 31].
Printable ==
  << " ", "!", "\"", "#", "$", "%", "&", "'", "(", ")", "*", "+", ",", "-", ".", "/",
     "0", "1", "2", "3", "4", "5", "6", "7", "8", "9", ":", ";", "<", "=", ">", "?",
     "@", "A", "B", "C", "D", "E", "F", "G", "H", "I", "J", "K", "L", "M", "N", "O",
     "P", "Q", "R", "S", "T", "U", "V", "W", "X", "Y", "Z", "[", "\\", "]", "^", "_",
     "<U+0060>", "a", "b", "c", "d", "e", "f", "g", "h", "i", "j", "k", "l", "m", "n", "o",
     "p", "q", "r", "s", "t", "u", "v", "w", "x", "y", "z", "{", "|", "}", "~" >>

IndexIn(seq, c) == CHOOSE i \in 1..Len(seq) : seq[i] = c
Occurs(seq, c) == \E i \in 1..Len(seq) : seq[i] = c

\* str.isupper / str.isalpha / str.isdigit / str.isspace of one character.
IsUpper(c) == Occurs(ascii_uppercase, c)
IsAlpha(c) == Occurs(ascii_uppercase, c) \/ Occurs(ascii_lowercase, c) \/ c = "<U+0131>"
IsDigit(c) == c \in digits
IsSpace(c) == c \in whitespace

\* str.lower of one character: the dotless i is lowercase already.
LowerChar(c) ==
    IF Occurs(ascii_uppercase, c) THEN ascii_lowercase[IndexIn(ascii_uppercase, c)] ELSE c

\* str.upper of one character: the capital of the dotless i is the ASCII I.
UpperChar(c) ==
    IF Occurs(ascii_lowercase, c) THEN ascii_uppercase[IndexIn(ascii_lowercase, c)]
    ELSE IF c = "<U+0131>" THEN "I" ELSE c

lower(s) == [i \in 1..Len(s) |-> LowerChar(s[i])]
upper(s) == [i \in 1..Len(s) |-> UpperChar(s[i])]

\* The str a sequence of characters spells.
RECURSIVE Join(_)
Join(s) == IF s = <<>> THEN "" ELSE Head(s) \o Join(Tail(s))

\* s[i:j] of Python for 0 <= i (0-based, j exclusive, clipped to the length).
Slice(s, i, j) == SubSeq(s, i + 1, Min(j, Len(s)))

\* str.startswith, str.endswith and the operator in, for a pattern given as a str.
StartsWith(s, p) == Len(s) >= Len(p) /\ Join(SubSeq(s, 1, Len(p))) = p
EndsWith(s, p) == Len(s) >= Len(p) /\ Join(SubSeq(s, Len(s) - Len(p) + 1, Len(s))) = p
Contains(s, p) ==
    \E i \in 1..(Len(s) - Len(p) + 1) : Join(SubSeq(s, i, i + Len(p) - 1)) = p

\* str.strip(chars) and str.strip().
RECURSIVE LStrip(_, _)
LStrip(s, chars) ==
    IF s # <<>> /\ Head(s) \in chars THEN LStrip(Tail(s), chars) ELSE s
RECURSIVE RStrip(_, _)
RStrip(s, chars) ==
    IF s # <<>> /\ s[Len(s)] \in chars THEN RStrip(SubSeq(s, 1, Len(s) - 1), chars) ELSE s
strip(s, chars) == RStrip(LStrip(s, chars), chars)

\* The length of the longest prefix of s made of characters of cls.
RECURSIVE Run(_, _)
Run(s, cls) == IF s # <<>> /\ Head(s) \in cls THEN 1 + Run(Tail(s), cls) ELSE 0

\* The length of the longest prefix of s made of characters outside cls.
RECURSIVE RunNot(_, _)
RunNot(s, cls) == IF s # <<>> /\ Head(s) \notin cls THEN 1 + RunNot(Tail(s), cls) ELSE 0

Drop(s, n) == SubSeq(s, n + 1, Len(s))

(***************************************************************************)
(* 1. Text preprocessing.                                                  *)
(***************************************************************************)
\* re.sub(r'[whitespace]+', ' ', text)
RECURSIVE CollapseWhitespace(_)
CollapseWhitespace(s) ==
    IF s = <<>> THEN <<>>
    ELSE IF IsSpace(Head(s))
         THEN <<" ">> \o CollapseWhitespace(Drop(s, Run(s, whitespace)))
         ELSE <<Head(s)>> \o CollapseWhitespace(Tail(s))

hexdigits == <<"0", "1", "2", "3", "4", "5", "6", "7", "8", "9",
               "a", "b", "c", "d", "e", "f">>
IsHex(c) == Occurs(hexdigits, LowerChar(c))
HexVal(c) == IndexIn(hexdigits, LowerChar(c)) - 1

\* The character a decoded byte stands for: ASCII as itself, a byte that is no
\* UTF-8 sequence of its own as the replacement character (errors='replace').
\* Bytes are decoded one by one: a percent-encoded multi-byte UTF-8 sequence is
\* outside the model.
Chr(code) ==
    IF code >= 32 /\ code <= 126 THEN Printable[code - 31]
    ELSE IF code = 9 THEN "\t"
    ELSE IF code = 10 THEN "\n"
    ELSE IF code = 12 THEN "\f"
    ELSE IF code = 13 THEN "\r"
    ELSE IF code >= 128 THEN "<U+FFFD>"
    ELSE "<C0>"

\* urllib.parse.unquote: every '%' followed by two hex digits becomes the byte they
\* spell, in one left-to-right pass; any other '%' is kept.
RECURSIVE unquote(_)
unquote(s) ==
    IF s = <<>> THEN <<>>
    ELSE IF Head(s) = "%" /\ Len(s) >= 3 /\ IsHex(s[2]) /\ IsHex(s[3])
         THEN <<Chr(16 * HexVal(s[2]) + HexVal(s[3]))>> \o unquote(Drop(s, 3))
         ELSE <<Head(s)>> \o unquote(Tail(s))

\* re.sub of ([!?.]){2,} by group 1: a run of two or more of the characters
\* ! ? . is replaced by what the group captured last, the run's last character.
RECURSIVE CollapsePunctuation(_)
CollapsePunctuation(s) ==
    IF s = <<>> THEN <<>>
    ELSE LET n == Run(s, {"!", "?", "."})
         IN IF n >= 2 THEN <<s[n]>> \o CollapsePunctuation(Drop(s, n))
            ELSE <<Head(s)>> \o CollapsePunctuation(Tail(s))

\* preprocess_text without the lowercasing.
preprocess_text_keeping_case(t) ==
    IF t = <<>> THEN <<>>
    ELSE CollapsePunctuation(unquote(CollapseWhitespace(strip(t, whitespace))))

preprocess_text(t) ==
    IF t = <<>> THEN <<>>
    ELSE CollapsePunctuation(unquote(CollapseWhitespace(strip(lower(t), whitespace))))

\* re.findall of (https?://\S+|www\.\S+|bit\.ly/\S+|tinyurl\.com/\S+|goo\.gl/\S+):
\* a match starts where one of the prefixes is followed by a non-whitespace
\* character and runs to the next whitespace; the search resumes after it.
url_prefixes == {"http://", "https://", "www.", "bit.ly/", "tinyurl.com/", "goo.gl/"}

RECURSIVE findall_urls(_)
findall_urls(s) ==
    IF s = <<>> THEN <<>>
    ELSE IF \E p \in url_prefixes :
                StartsWith(s, p) /\ Len(s) > Len(p) /\ ~IsSpace(s[Len(p) + 1])
         THEN LET n == RunNot(s, whitespace)
              IN <<SubSeq(s, 1, n)>> \o findall_urls(Drop(s, n))
         ELSE findall_urls(Tail(s))

url_strip_chars == {".", ",", ";", ":", "(", ")", "[", "]", "{", "}", "\"", "'"}

extract_urls(t) ==
    LET urls == findall_urls(t)
    IN [i \in 1..Len(urls) |-> strip(urls[i], url_strip_chars)]

(***************************************************************************)
(* 2. Feature extraction.  A FeatureExtractor is the record of its tables; *)
(* a keyword table is the list of its (keyword, weight) items in the       *)
(* dict's order, weights in tenths.                                        *)
(***************************************************************************)
threat_keywords ==
    <<<<"urgent", 15>>, <<"immediate", 15>>, <<"asap", 15>>, <<"critical", 15>>,
     <<"emergency", 15>>, <<"important", 13>>, <<"verify", 14>>, <<"confirm", 13>>,
     <<"suspended", 16>>, <<"blocked", 16>>, <<"locked", 16>>, <<"terminated", 16>>,
     <<"expired", 14>>, <<"warning", 13>>, <<"alert", 13>>, <<"attention", 12>>,
     <<"required", 12>>, <<"necessary", 12>>, <<"compulsory", 13>>>>

auth_keywords ==
    <<<<"login", 14>>, <<"password", 16>>, <<"credentials", 16>>,
     <<"authenticate", 15>>, <<"account", 14>>, <<"security", 13>>,
     <<"reset", 15>>, <<"update", 13>>, <<"verify", 14>>, <<"confirm", 13>>,
     <<"username", 14>>, <<"signin", 14>>, <<"sign-in", 14>>,
     <<"two-factor", 15>>, <<"2fa", 15>>, <<"multi-factor", 15>>,
     <<"access", 13>>, <<"authorize", 14>>, <<"validation", 13>>>>

financial_keywords ==
    <<<<"bank", 15>>, <<"paypal", 16>>, <<"credit", 14>>, <<"payment", 14>>,
     <<"money", 13>>, <<"refund", 15>>, <<"invoice", 14>>, <<"billing", 14>>,
     <<"transaction", 15>>, <<"otp", 16>>, <<"pin", 16>>, <<"card", 15>>,
     <<"wire", 14>>, <<"transfer", 15>>, <<"deposit", 14>>, <<"withdrawal", 14>>,
     <<"fee", 13>>, <<"charge", 13>>, <<"statement", 13>>, <<"balance", 13>>>>

impersonation_keywords ==
    <<<<"irs", 16>>, <<"microsoft", 15>>, <<"apple", 15>>, <<"google", 15>>,
     <<"amazon", 15>>, <<"paypal", 16>>, <<"fedex", 14>>, <<"ups", 14>>,
     <<"dhl", 14>>, <<"usps", 14>>, <<"government", 15>>, <<"official", 14>>,
     <<"support", 13>>, <<"customer", 13>>, <<"service", 13>>, <<"team", 12>>>>

url_shorteners ==
    {"bit.ly", "tinyurl.com", "goo.gl", "ow.ly", "is.gd",
     "adf.ly", "shorte.st", "t.co", "buff.ly", "cutt.ly",
     "shorturl.at", "rb.gy", "bc.vc", "soo.gd", "s2r.co",
     "click.ru", "clck.ru", "tiny.cc", "tr.im", "qr.net"}

suspicious_tlds ==
    {".xyz", ".top", ".club", ".work", ".site", ".online", ".click", ".link"}

\* FeatureExtractor.__init__
FeatureExtractor ==
    [threat_keywords |-> threat_keywords,
     auth_keywords |-> auth_keywords,
     financial_keywords |-> financial_keywords,
     impersonation_keywords |-> impersonation_keywords,
     url_shorteners |-> url_shorteners,
     suspicious_tlds |-> suspicious_tlds]

\* set(text.split()): the whitespace-delimited tokens, each as a str.
RECURSIVE split(_)
split(s) ==
    IF s = <<>> THEN {}
    ELSE IF IsSpace(Head(s)) THEN split(Drop(s, Run(s, whitespace)))
         ELSE LET n == RunNot(s, whitespace)
              IN {Join(SubSeq(s, 1, n))} \cup split(Drop(s, n))

\* table.keys() and table[word]
keys(table) == {table[i][1] : i \in 1..Len(table)}
lookup(table, word) == table[CHOOSE i \in 1..Len(table) : table[i][1] = word][2]

RECURSIVE sum_weights(_, _)
sum_weights(table, words) ==
    IF words = {} THEN 0
    ELSE LET word == CHOOSE w \in words : TRUE
         IN lookup(table, word) + sum_weights(table, words \ {word})

\* sum(table[word] for word in tokens & table.keys())
keyword_score(table, tokens) == sum_weights(table, tokens \cap keys(table))

\* What urlparse makes of scheme://rest: the netloc runs to the first of / ? #,
\* the path to the first of ? #, and, http being a scheme with parameters, to
\* the first ; of its last segment.  An unbalanced bracket in the netloc is the
\* ValueError "Invalid IPv6 URL"; the validation newer versions of the library
\* make of a host in balanced brackets is outside the model.
RECURSIVE LastIndexOf(_, _)
LastIndexOf(s, c) ==
    IF s = <<>> THEN 0
    ELSE IF s[Len(s)] = c THEN Len(s) ELSE LastIndexOf(SubSeq(s, 1, Len(s) - 1), c)

splitparams(path) ==
    LET from == LastIndexOf(path, "/")
        n == RunNot(Drop(path, from), {";"})
    IN SubSeq(path, 1, from + n)

urlparse(url) ==
    LET rest == IF StartsWith(url, "https://") THEN Drop(url, 8) ELSE Drop(url, 7)
        n == RunNot(rest, {"/", "?", "#"})
        netloc == SubSeq(rest, 1, n)
        tail == Drop(rest, n)
        path == splitparams(SubSeq(tail, 1, RunNot(tail, {"?", "#"})))
        hasOpen == Occurs(netloc, "[")
        hasClose == Occurs(netloc, "]")
    IN IF hasOpen # hasClose THEN [error |-> "ValueError"]
       ELSE [netloc |-> netloc, path |-> path]

\* re.match of \d+\.\d+\.\d+\.\d+ at the start of s; groups counts the
\* digit groups still to match.
RECURSIVE match_dotted(_, _)
match_dotted(s, groups) ==
    LET n == Run(s, digits)
    IN /\ n >= 1
       /\ \/ groups = 1
          \/ /\ Len(s) > n
             /\ s[n + 1] = "."
             /\ match_dotted(Drop(s, n + 1), groups - 1)

login_keywords == {"login", "signin", "verify", "secure"}

HttpPrefix == <<"h", "t", "t", "p", ":", "/", "/">>

\* FeatureExtractor._analyze_url
_analyze_url(self, url) ==
    LET parsed == urlparse(IF StartsWith(url, "http") THEN url ELSE HttpPrefix \o url)
    IN IF "error" \in DOMAIN parsed
       THEN [original |-> url, error |-> "parse_failed"]
       ELSE LET domain == lower(parsed.netloc)
                path == lower(parsed.path)
            IN [original |-> url,
                domain |-> domain,
                path |-> path,
                is_shortener |-> \E short \in self.url_shorteners : Contains(domain, short),
                has_suspicious_tld |-> \E tld \in self.suspicious_tlds : EndsWith(domain, tld),
                is_ip_address |-> match_dotted(domain, 4),
                has_login_keywords |-> \E keyword \in login_keywords : Contains(path, keyword),
                length |-> Len(url)]

\* The unit of the fixed-point numbers that stand for floats.
Scale == 10000

CountIn(s, cls) == Cardinality({i \in 1..Len(s) : s[i] \in cls})

\* FeatureExtractor._calculate_caps_ratio
_calculate_caps_ratio(t) ==
    LET letters == {i \in 1..Len(t) : IsAlpha(t[i])}
    IN IF t = <<>> THEN 0
       ELSE IF letters = {} THEN 0
       ELSE (Cardinality({i \in letters : IsUpper(t[i])}) * Scale) \div Cardinality(letters)

greetings == {"hi", "hello", "dear", "greetings", "good morning", "good afternoon"}

\* FeatureExtractor._check_greeting
_check_greeting(t) ==
    LET first_50 == lower(Slice(t, 0, 50))
    IN IF \E greet \in greetings : Contains(first_50, greet) THEN 0 ELSE 1

\* re.search of "within \d+ <unit>s?": the optional s never decides a search.
search_within(t, unit) ==
    \E i \in 1..Len(t) :
        /\ StartsWith(Drop(t, i - 1), "within ")
        /\ LET after == Drop(t, i + 6)
               n == Run(after, digits)
           IN n >= 1 /\ StartsWith(Drop(after, n), unit)

urgency_phrases ==
    {"immediate action", "act now", "don't delay", "limited time", "expires soon",
     "last chance"}

\* FeatureExtractor._check_urgency_indicators
_check_urgency_indicators(t) ==
    IF \/ search_within(t, " hour")
       \/ search_within(t, " day")
       \/ \E phrase \in urgency_phrases : Contains(t, phrase)
    THEN 1 ELSE 0

generic_greetings == {"dear customer", "dear user", "dear account holder", "valued customer"}

\* FeatureExtractor._check_generic_greeting
_check_generic_greeting(t) ==
    LET first_100 == lower(Slice(t, 0, 100))
    IN IF \E greet \in generic_greetings : Contains(first_100, greet) THEN 1 ELSE 0

\* The exception the loop of extract_features raises on a record without the
\* key is_shortener.
KeyError == [exception |-> "KeyError"]

Raised(x) == "exception" \in DOMAIN x

\* The url_details list: _analyze_url of each extracted URL, in order.
analyze_urls(self, t) ==
    LET urls == extract_urls(t)
    IN [i \in 1..Len(urls) |-> _analyze_url(self, urls[i])]

\* CountFlag that tells only whether some entry has the flag.
CountFlagAny(details, flag) ==
    IF \E i \in 1..Len(details) : details[i][flag] THEN 1 ELSE 0

\* The counter the loop of extract_features steps once for every analysis with
\* the flag set.
CountFlag(details, flag) ==
    Cardinality({i \in 1..Len(details) : details[i][flag]})

\* FeatureExtractor.extract_features: the loop reads url_feat["is_shortener"] of
\* every analysis, so the first record {original, error} ends it with KeyError.
extract_features(self, t) ==
    LET tokens == split(t)
        url_features == analyze_urls(self, t)
    IN IF \E i \in 1..Len(url_features) : "is_shortener" \notin DOMAIN url_features[i]
       THEN KeyError
       ELSE [threat_score |-> keyword_score(self.threat_keywords, tokens),
             auth_score |-> keyword_score(self.auth_keywords, tokens),
             financial_score |-> keyword_score(self.financial_keywords, tokens),
             impersonation_score |-> keyword_score(self.impersonation_keywords, tokens),
             total_urls |-> Len(url_features),
             suspicious_urls |-> CountFlag(url_features, "is_shortener"),
             suspicious_domains |-> CountFlag(url_features, "has_suspicious_tld"),
             ip_address_urls |-> CountFlag(url_features, "is_ip_address"),
             url_details |-> url_features,
             exclamation_count |-> CountIn(t, {"!"}),
             all_caps_ratio |-> _calculate_caps_ratio(t),
             digit_ratio |-> (CountIn(t, digits) * Scale) \div Max(1, Len(t)),
             special_char_ratio |-> (CountIn(t, punctuation) * Scale) \div Max(1, Len(t)),
             greeting_missing |-> _check_greeting(t),
             sense_of_urgency |-> _check_urgency_indicators(t),
             generic_greeting |-> _check_generic_greeting(t)]

(***************************************************************************)
(* 3. Risk calculation.  Weights and thresholds count tenths; the base     *)
(* score and the values of the two logistic curves count 1/Scale.          *)
(***************************************************************************)
weights ==
    [threat_score |-> 8, auth_score |-> 7, financial_score |-> 9,
     impersonation_score |-> 8,
     total_urls |-> 15, suspicious_urls |-> 25, suspicious_domains |-> 20,
     ip_address_urls |-> 30,
     exclamation_count |-> 3, all_caps_ratio |-> 5, digit_ratio |-> 4,
     special_char_ratio |-> 3,
     greeting_missing |-> 6, sense_of_urgency |-> 12, generic_greeting |-> 7]

thresholds == [high_risk |-> 75, medium_risk |-> 50, low_risk |-> 30]

\* RiskCalculator.__init__
RiskCalculator == [weights |-> weights, thresholds |-> thresholds]

keyword_features == {"threat_score", "auth_score", "financial_score", "impersonation_score"}
ratio_features == {"all_caps_ratio", "digit_ratio", "special_char_ratio"}

\* e ** (0.9999 * z / Scale) for 0 <= z < Scale, by its series: 2.718 ** f is
\* e ** (f * ln 2.718) and ln 2.718 is 0.9999 to four places.
RECURSIVE exp_series(_, _, _)
exp_series(z, k, term) ==
    IF term = 0 \/ k > 10 THEN 0
    ELSE term + exp_series(z, k + 1, (term * z) \div (k * Scale))

\* v * 2.718 ** n for an integer n.
RECURSIVE times_pow(_, _)
times_pow(v, n) ==
    IF n = 0 \/ v = 0 THEN v
    ELSE IF n > 0 THEN times_pow((v * 2718) \div 1000, n - 1)
    ELSE times_pow((v * 1000) \div 2718, n + 1)

\* 2.718 ** (y / Scale), in units of 1/Scale, for y / Scale <= 3.
pow_2718(y) ==
    LET n == y \div Scale
        f == y - n * Scale
    IN times_pow(exp_series((f * 9999) \div 10000, 1, Scale), n)

\* 10 * (1 / (1 + 2.718 ** (-10 * (value - 0.3))))
sigmoid_scale(value) == (10 * Scale * Scale) \div (Scale + pow_2718(-10 * (value - (3 * Scale) \div 10)))

\* RiskCalculator._logistic_scale: 10 / (1 + 2.718 ** (-0.5 * (x - 5)))
_logistic_scale(x) == (10 * Scale * Scale) \div (Scale + pow_2718((5 * Scale - x) \div 2))

\* round(x, 1), in tenths.
round1(x) == (x + Scale \div 20) \div (Scale \div 10)

\* One feature's term of the base score.
weighted(self, feature, value) ==
    IF feature \in ratio_features
    THEN (sigmoid_scale(value) * self.weights[feature]) \div 10
    ELSE IF feature \in keyword_features
    THEN (value * (Scale \div 10) * self.weights[feature]) \div 10
    ELSE (value * Scale * self.weights[feature]) \div 10

RECURSIVE base_score(_, _, _)
base_score(self, feats, names) ==
    IF names = {} THEN 0
    ELSE LET f == CHOOSE g \in names : TRUE
         IN weighted(self, f, feats[f]) + base_score(self, feats, names \ {f})

\* The penalty factors that hold.
penalty_factors(feats) ==
    (IF feats.suspicious_urls > 0 THEN 1 ELSE 0)
    + (IF feats.threat_score > 20 THEN 1 ELSE 0)
    + (IF feats.auth_score > 20 THEN 1 ELSE 0)

\* calculate_score without the cap after the bonus.
calculate_score_uncapped(self, feats) ==
    LET base == base_score(self, feats, DOMAIN self.weights \cap DOMAIN feats)
        scaled == Min(100, round1(_logistic_scale(base)))
    IN IF penalty_factors(feats) >= 2 THEN scaled + 10 ELSE scaled

\* calculate_score with the bonus for exactly two factors.
calculate_score_exactly_two(self, feats) ==
    LET base == base_score(self, feats, DOMAIN self.weights \cap DOMAIN feats)
        scaled == Min(100, round1(_logistic_scale(base)))
    IN IF penalty_factors(feats) = 2 THEN Min(100, scaled + 10) ELSE scaled

\* calculate_score with the bonus as soon as one factor holds.
calculate_score_any_factor(self, feats) ==
    LET base == base_score(self, feats, DOMAIN self.weights \cap DOMAIN feats)
        scaled == Min(100, round1(_logistic_scale(base)))
    IN IF penalty_factors(feats) >= 1 THEN Min(100, scaled + 10) ELSE scaled

\* RiskCalculator.calculate_score, in tenths.
calculate_score(self, feats) ==
    LET base == base_score(self, feats, DOMAIN self.weights \cap DOMAIN feats)
        scaled == Min(100, round1(_logistic_scale(base)))
    IN IF penalty_factors(feats) >= 2 THEN Min(100, scaled + 10) ELSE scaled

(***************************************************************************)
(* 4. Classification.  The emoji that open the classification labels are   *)
(* left out of the strings.                                                *)
(***************************************************************************)
\* PhishingDetector.__init__
PhishingDetector == [extractor |-> FeatureExtractor, calculator |-> RiskCalculator]

\* PhishingDetector._error_response
_error_response(message, timestamp) ==
    [status |-> "error", message |-> message, timestamp |-> timestamp]

\* detected_in that stops at the first keyword found.
RECURSIVE detected_in_first(_, _)
detected_in_first(table, tokens) ==
    IF table = <<>> THEN <<>>
    ELSE IF Head(table)[1] \in tokens THEN <<Head(table)[1]>>
         ELSE detected_in_first(Tail(table), tokens)

\* [k for k in table if k in tokens]
RECURSIVE detected_in(_, _)
detected_in(table, tokens) ==
    IF table = <<>> THEN <<>>
    ELSE (IF Head(table)[1] \in tokens THEN <<Head(table)[1]>> ELSE <<>>)
         \o detected_in(Tail(table), tokens)

\* PhishingDetector._extract_detected_keywords
_extract_detected_keywords(self, t) ==
    LET tokens == split(t)
    IN [threat_keywords |-> detected_in(self.extractor.threat_keywords, tokens),
        auth_keywords |-> detected_in(self.extractor.auth_keywords, tokens),
        financial_keywords |-> detected_in(self.extractor.financial_keywords, tokens),
        impersonation_keywords |->
            detected_in(self.extractor.impersonation_keywords, tokens)]

\* The band of _classify with > in place of >=.
band_strict(self, score) ==
    IF score > self.calculator.thresholds.high_risk
    THEN [classification |-> "High Risk Phishing", confidence |-> "Very High",
          advice |-> "DO NOT interact. This is highly likely to be a phishing attempt.",
          color |-> "#dc2626", severity |-> "critical"]
    ELSE IF score > self.calculator.thresholds.medium_risk
    THEN [classification |-> "Suspicious Message", confidence |-> "Medium-High",
          advice |-> "Exercise extreme caution. Verify sender through official channels.",
          color |-> "#f97316", severity |-> "high"]
    ELSE IF score > self.calculator.thresholds.low_risk
    THEN [classification |-> "Moderate Risk", confidence |-> "Medium",
          advice |-> "Be cautious. Check for unusual elements before taking action.",
          color |-> "#f59e0b", severity |-> "medium"]
    ELSE [classification |-> "Likely Safe", confidence |-> "High",
          advice |-> "Message appears safe, but remain vigilant.",
          color |-> "#16a34a", severity |-> "low"]

\* The band of _classify: the first threshold, high to low, the score reaches.
band(self, score) ==
    IF score >= self.calculator.thresholds.high_risk
    THEN [classification |-> "High Risk Phishing", confidence |-> "Very High",
          advice |-> "DO NOT interact. This is highly likely to be a phishing attempt.",
          color |-> "#dc2626", severity |-> "critical"]
    ELSE IF score >= self.calculator.thresholds.medium_risk
    THEN [classification |-> "Suspicious Message", confidence |-> "Medium-High",
          advice |-> "Exercise extreme caution. Verify sender through official channels.",
          color |-> "#f97316", severity |-> "high"]
    ELSE IF score >= self.calculator.thresholds.low_risk
    THEN [classification |-> "Moderate Risk", confidence |-> "Medium",
          advice |-> "Be cautious. Check for unusual elements before taking action.",
          color |-> "#f59e0b", severity |-> "medium"]
    ELSE [classification |-> "Likely Safe", confidence |-> "High",
          advice |-> "Message appears safe, but remain vigilant.",
          color |-> "#16a34a", severity |-> "low"]

\* PhishingDetector._classify
_classify(self, score, feats, original, processed, timestamp) ==
    LET b == band(self, score)
    IN [original_text |-> original,
        processed_text |-> processed,
        features |-> feats,
        risk_score |-> score,
        classification |-> b.classification,
        confidence |-> b.confidence,
        advice |-> b.advice,
        color |-> b.color,
        severity |-> b.severity,
        detected_keywords |-> _extract_detected_keywords(self, processed),
        timestamp |-> timestamp]

\* PhishingDetector._explain_features: each explanation as what it reports.
_explain_features(feats) ==
    (IF feats.threat_score > 10
     THEN <<[about |-> "threat/urgency indicators", value |-> feats.threat_score]>>
     ELSE <<>>)
    \o (IF feats.auth_score > 10
        THEN <<[about |-> "authentication-related terms", value |-> feats.auth_score]>>
        ELSE <<>>)
    \o (IF feats.financial_score > 10
        THEN <<[about |-> "financial-related terms", value |-> feats.financial_score]>>
        ELSE <<>>)
    \o (IF feats.suspicious_urls > 0
        THEN <<[about |-> "suspicious shortened URLs", value |-> feats.suspicious_urls]>>
        ELSE <<>>)
    \o (IF feats.sense_of_urgency > 0
        THEN <<[about |-> "Uses urgency/time pressure tactics"]>> ELSE <<>>)
    \o (IF feats.greeting_missing > 0
        THEN <<[about |-> "Missing personalized greeting"]>> ELSE <<>>)
    \o (IF feats.exclamation_count > 3
        THEN <<[about |-> "Excessive use of exclamation marks",
                value |-> feats.exclamation_count]>>
        ELSE <<>>)

\* PhishingDetector._generate_recommendations
_generate_recommendations(classification) ==
    IF classification = "High Risk Phishing"
    THEN <<"Do not click any links", "Do not download attachments",
           "Do not reply with personal information",
           "Report to your IT security team", "Delete the message after reporting">>
    ELSE IF classification = "Suspicious Message"
    THEN <<"Verify sender's email address carefully",
           "Contact the organization through official channels",
           "Hover over links to preview destination URLs",
           "Check for spelling and grammar errors", "Look for generic greetings">>
    ELSE <<"Verify sender identity if unsure", "Check URLs before clicking",
           "Enable two-factor authentication", "Keep security software updated",
           "Regularly change passwords">>

\* The test of detect's first line: not text or not text.strip()
is_blank(t) == t = <<>> \/ strip(t, whitespace) = <<>>

\* The tail of detect, from the classification on.
finish(self, score, feats, original, processed, timestamp) ==
    LET classified == _classify(self, score, feats, original, processed, timestamp)
    IN [f \in DOMAIN classified \cup {"feature_explanations", "recommendations"} |->
           IF f = "feature_explanations" THEN _explain_features(feats)
           ELSE IF f = "recommendations"
                THEN _generate_recommendations(classified.classification)
                ELSE classified[f]]

\* PhishingDetector.detect as one function of the text and the clock reading:
\* the result it returns, or the exception it raises.
detect(self, t, timestamp) ==
    IF is_blank(t) THEN _error_response("Please enter a message to analyze", timestamp)
    ELSE LET processed == preprocess_text(t)
             feats == extract_features(self.extractor, processed)
         IN IF Raised(feats) THEN feats
            ELSE finish(self, calculate_score(self.calculator, feats), feats, t,
                        processed, timestamp)

(***************************************************************************)
(* The inputs.                                                             *)
(***************************************************************************)
\* The pieces messages are built from: a separator, a keyword in three spellings
\* (lowercase, capitals, with a dotless i), an exclamation mark, percent-encoded
\* sequences (an uppercase letter, a space, an exclamation mark, a doubly encoded
\* letter) and four URLs (a shortener, one the URL parser rejects, a suspicious
\* domain, an IP address).
Fragments ==
    {<<" ">>,
     <<"p", "i", "n">>,
     <<"P", "I", "N">>,
     <<"p", "<U+0131>", "n">>,
     <<"!">>,
     <<"%", "4", "1">>,
     <<"%", "2", "0">>,
     <<"%", "2", "1">>,
     <<"%", "2", "5", "4", "1">>,
     <<"b", "i", "t", ".", "l", "y", "/", "x">>,
     <<"w", "w", "w", ".", "[", "a">>,
     <<"w", "w", "w", ".", "a", ".", "x", "y", "z">>,
     <<"h", "t", "t", "p", ":", "/", "/", "1", ".", "1", ".", "1", ".", "1">>}

RECURSIVE Concats(_)
Concats(n) ==
    IF n = 0 THEN {<<>>}
    ELSE LET shorter == Concats(n - 1)
         IN shorter \cup {a \o f : a \in shorter, f \in Fragments}

Texts == Concats(MaxFrags)

\* The messages concurrent calls are made with: the first MaxConcTexts of these.
sample_texts ==
    << <<"P", "I", "N">>,
       <<" ">>,
       <<"w", "w", "w", ".", "[", "a">>,
       <<"b", "i", "t", ".", "l", "y", "/", "x", " ", "%", "4", "1">>,
       <<"p", "i", "n", "!", "!">>,
       <<>> >>

ConcTexts == {sample_texts[i] : i \in 1..Min(MaxConcTexts, Len(sample_texts))}

\* The pieces of the messages keyword matching is run on: a separator, two
\* keywords of one table, a keyword of two tables (financial and impersonation),
\* another of two tables (threat and authentication), an exclamation mark and a
\* percent-encoded space.
KeywordFragments ==
    {<<" ">>,
     <<"p", "i", "n">>,
     <<"c", "a", "r", "d">>,
     <<"p", "a", "y", "p", "a", "l">>,
     <<"v", "e", "r", "i", "f", "y">>,
     <<"!">>,
     <<"%", "2", "0">>}

RECURSIVE KeywordConcats(_)
KeywordConcats(n) ==
    IF n = 0 THEN {<<>>}
    ELSE LET shorter == KeywordConcats(n - 1)
         IN shorter \cup {a \o f : a \in shorter, f \in KeywordFragments}

KeywordTexts == KeywordConcats(MaxFrags)

Timestamps == 0..MaxTime

\* Feature records for the score: keyword scores of up to MaxKeywords keywords
\* of weight 1.5 (four such in every table), up to MaxUrls URLs of which any
\* number are shorteners and none or all have a suspicious domain or an IP
\* address, ratios on both sides of the centre 0.3 of the ratio curve, and the
\* greetings a text can have (a generic greeting is a greeting).
KeywordScores == {15 * n : n \in 0..MaxKeywords}

UrlCounts ==
    {u \in [total : 0..MaxUrls, shorteners : 0..MaxUrls, domains : 0..MaxUrls,
            ips : 0..MaxUrls] :
        /\ u.shorteners <= u.total
        /\ u.domains \in {0, u.total}
        /\ u.ips \in {0, u.total}}

TextRatios == {[digit |-> 0, special |-> 0],
               [digit |-> (3 * Scale) \div 10, special |-> Scale \div 2]}

GreetingFlags == {[missing |-> 1, generic |-> 0], [missing |-> 0, generic |-> 0],
                  [missing |-> 0, generic |-> 1]}

FeatureRecords ==
    {[threat_score |-> threat,
      auth_score |-> auth,
      financial_score |-> other,
      impersonation_score |-> other,
      total_urls |-> u.total,
      suspicious_urls |-> u.shorteners,
      suspicious_domains |-> u.domains,
      ip_address_urls |-> u.ips,
      url_details |-> <<>>,
      exclamation_count |-> excl,
      all_caps_ratio |-> caps,
      digit_ratio |-> r.digit,
      special_char_ratio |-> r.special,
      greeting_missing |-> g.missing,
      sense_of_urgency |-> urgency,
      generic_greeting |-> g.generic] :
        threat \in KeywordScores, auth \in KeywordScores,
        other \in {0, 15 * MaxKeywords}, u \in UrlCounts, excl \in {0, MaxExcl},
        caps \in {0, Scale}, r \in TextRatios, g \in GreetingFlags,
        urgency \in {0, 1}}

(***************************************************************************)
(* The calls.  A call of detect_phishing goes through the statements of    *)
(* detect one at a time; everything it holds is its own.                   *)
(***************************************************************************)
Calls == {1, 2}

None == [none |-> TRUE]

\* detect_phishing: detector = PhishingDetector()
Construct(c) ==
    /\ pc[c] = "idle"
    /\ detector' = [detector EXCEPT ![c] = PhishingDetector]
    /\ pc' = [pc EXCEPT ![c] = "detect"]
    /\ UNCHANGED <<text, processed_text, features, risk_score, result>>

\* detect: the empty or blank text returns the error response.
RejectBlank(c) ==
    /\ pc[c] = "detect"
    /\ is_blank(text[c])
    /\ \E timestamp \in Timestamps :
           result' = [result EXCEPT ![c] =
               _error_response("Please enter a message to analyze", timestamp)]
    /\ pc' = [pc EXCEPT ![c] = "done"]
    /\ UNCHANGED <<text, detector, processed_text, features, risk_score>>

\* Preprocess with the processed text kept where every call writes and reads it.
PreprocessShared(c) ==
    /\ pc[c] = "detect"
    /\ ~is_blank(text[c])
    /\ processed_text' = [d \in Calls |-> preprocess_text(text[c])]
    /\ pc' = [pc EXCEPT ![c] = "extract"]
    /\ UNCHANGED <<text, detector, features, risk_score, result>>

\* detect: processed_text = preprocess_text(text)
Preprocess(c) ==
    /\ pc[c] = "detect"
    /\ ~is_blank(text[c])
    /\ processed_text' = [processed_text EXCEPT ![c] = preprocess_text(text[c])]
    /\ pc' = [pc EXCEPT ![c] = "extract"]
    /\ UNCHANGED <<text, detector, features, risk_score, result>>

\* detect: features = self.extractor.extract_features(processed_text)
ExtractFeatures(c) ==
    /\ pc[c] = "extract"
    /\ LET feats == extract_features(detector[c].extractor, processed_text[c])
       IN IF Raised(feats)
          THEN /\ result' = [result EXCEPT ![c] = feats]
               /\ pc' = [pc EXCEPT ![c] = "raised"]
               /\ UNCHANGED features
          ELSE /\ features' = [features EXCEPT ![c] = feats]
               /\ pc' = [pc EXCEPT ![c] = "score"]
               /\ UNCHANGED result
    /\ UNCHANGED <<text, detector, processed_text, risk_score>>

\* detect: risk_score = self.calculator.calculate_score(features)
CalculateScore(c) ==
    /\ pc[c] = "score"
    /\ risk_score' = [risk_score EXCEPT ![c] =
           calculate_score(detector[c].calculator, features[c])]
    /\ pc' = [pc EXCEPT ![c] = "classify"]
    /\ UNCHANGED <<text, detector, processed_text, features, result>>

\* detect: _classify, the explanations, the recommendations and the return.
Classify(c) ==
    /\ pc[c] = "classify"
    /\ \E timestamp \in Timestamps :
           result' = [result EXCEPT ![c] =
               finish(detector[c], risk_score[c], features[c], text[c],
                      processed_text[c], timestamp)]
    /\ pc' = [pc EXCEPT ![c] = "done"]
    /\ UNCHANGED <<text, detector, processed_text, features, risk_score>>

Step(c) ==
    \/ Construct(c)
    \/ RejectBlank(c)
    \/ Preprocess(c)
    \/ ExtractFeatures(c)
    \/ CalculateScore(c)
    \/ Classify(c)

\* One call of detect_phishing, with any of the messages.
Init ==
    /\ text \in {[c \in Calls |-> IF c = 1 THEN t ELSE <<>>] : t \in Texts}
    /\ pc = [c \in Calls |-> IF c = 1 THEN "idle" ELSE "unused"]
    /\ detector = [c \in Calls |-> None]
    /\ processed_text = [c \in Calls |-> None]
    /\ features = [c \in Calls |-> None]
    /\ risk_score = [c \in Calls |-> None]
    /\ result = [c \in Calls |-> None]

Next == \E c \in Calls : Step(c)

Spec == Init /\ [][Next]_vars

\* Two calls of detect_phishing on two threads of the web layer.
InitConc ==
    /\ text \in [Calls -> ConcTexts]
    /\ pc = [c \in Calls |-> "idle"]
    /\ detector = [c \in Calls |-> None]
    /\ processed_text = [c \in Calls |-> None]
    /\ features = [c \in Calls |-> None]
    /\ risk_score = [c \in Calls |-> None]
    /\ result = [c \in Calls |-> None]

SpecConc == InitConc /\ [][Next]_vars

\* One call of detect_phishing, with any of the keyword messages.
InitKeywords ==
    /\ text \in {[c \in Calls |-> IF c = 1 THEN t ELSE <<>>] : t \in KeywordTexts}
    /\ pc = [c \in Calls |-> IF c = 1 THEN "idle" ELSE "unused"]
    /\ detector = [c \in Calls |-> None]
    /\ processed_text = [c \in Calls |-> None]
    /\ features = [c \in Calls |-> None]
    /\ risk_score = [c \in Calls |-> None]
    /\ result = [c \in Calls |-> None]

SpecKeywords == InitKeywords /\ [][Next]_vars

\* calculate_score on its own, with any of the feature records.
InitScore ==
    /\ features \in {[c \in Calls |-> IF c = 1 THEN f ELSE None] : f \in FeatureRecords}
    /\ pc = [c \in Calls |-> IF c = 1 THEN "score" ELSE "unused"]
    /\ text = [c \in Calls |-> <<>>]
    /\ detector = [c \in Calls |-> IF c = 1 THEN PhishingDetector ELSE None]
    /\ processed_text = [c \in Calls |-> None]
    /\ risk_score = [c \in Calls |-> None]
    /\ result = [c \in Calls |-> None]

NextScore == \E c \in Calls : CalculateScore(c)

SpecScore == InitScore /\ [][NextScore]_vars

\* _classify on its own, with any score from 0.0 to 10.0.
classify_text == <<"P", "I", "N">>

InitClassify ==
    /\ risk_score \in {[c \in Calls |-> IF c = 1 THEN s ELSE None] : s \in 0..100}
    /\ pc = [c \in Calls |-> IF c = 1 THEN "classify" ELSE "unused"]
    /\ text = [c \in Calls |-> IF c = 1 THEN classify_text ELSE <<>>]
    /\ detector = [c \in Calls |-> IF c = 1 THEN PhishingDetector ELSE None]
    /\ processed_text = [c \in Calls |->
           IF c = 1 THEN preprocess_text(classify_text) ELSE None]
    /\ features = [c \in Calls |->
           IF c = 1 THEN extract_features(FeatureExtractor, preprocess_text(classify_text))
           ELSE None]
    /\ result = [c \in Calls |-> None]

NextClassify == \E c \in Calls : Classify(c)

SpecClassify == InitClassify /\ [][NextClassify]_vars

(***************************************************************************)
(* The claims.                                                             *)
(***************************************************************************)
Returned(c) == pc[c] = "done"
Finished(c) == pc[c] \in {"done", "raised"}
IsError(r) == "status" \in DOMAIN r
IsAnalysis(r) == "risk_score" \in DOMAIN r

\* C1: detect never raises: a call that has ended has returned the error-shaped
\* result or a full analysis result, whatever the text, a text with a URL the
\* parser rejects included.
C1_DetectNeverRaises ==
    \A c \in Calls :
        /\ pc[c] # "raised"
        /\ Returned(c) => (IsError(result[c]) \/ IsAnalysis(result[c]))

FeatureSchema ==
    {"threat_score", "auth_score", "financial_score", "impersonation_score",
     "total_urls", "suspicious_urls", "suspicious_domains", "ip_address_urls",
     "url_details", "exclamation_count", "all_caps_ratio", "digit_ratio",
     "special_char_ratio", "greeting_missing", "sense_of_urgency", "generic_greeting"}

Failed(detail) == "error" \in DOMAIN detail

CountParsed(details, flag) ==
    Cardinality({i \in 1..Len(details) : ~Failed(details[i]) /\ details[i][flag]})

\* C2: when the parse of an extracted URL fails, extract_features still completes:
\* the failed URL is the record {original, error}, the feature record has every
\* field of the schema, and its counts are those of the URLs that parsed.
C2_ParseFailureIsolated ==
    \A c \in Calls :
        pc[c] \in {"score", "raised"} =>
            LET details == analyze_urls(detector[c].extractor, processed_text[c])
            IN (\E i \in 1..Len(details) : Failed(details[i])) =>
                   /\ pc[c] = "score"
                   /\ DOMAIN features[c] = FeatureSchema
                   /\ features[c].url_details = details
                   /\ \A i \in 1..Len(details) :
                          Failed(details[i]) => DOMAIN details[i] = {"original", "error"}
                   /\ features[c].total_urls = Len(details)
                   /\ features[c].suspicious_urls = CountParsed(details, "is_shortener")
                   /\ features[c].suspicious_domains =
                          CountParsed(details, "has_suspicious_tld")
                   /\ features[c].ip_address_urls = CountParsed(details, "is_ip_address")

\* C3: a call with an empty or blank text ends with the error-shaped result, which
\* has no risk_score, classification or features, before preprocess_text,
\* extract_features or calculate_score has run; a call with any other text ends
\* with a result that has a risk_score and no error status.
C3_BlankIsErrorElseScore ==
    \A c \in Calls :
        Finished(c) =>
            IF is_blank(text[c])
            THEN /\ Returned(c)
                 /\ DOMAIN result[c] = {"status", "message", "timestamp"}
                 /\ result[c].status = "error"
                 /\ processed_text[c] = None
                 /\ features[c] = None
                 /\ risk_score[c] = None
            ELSE /\ Returned(c)
                 /\ IsAnalysis(result[c])
                 /\ ~IsError(result[c])

\* C4: the score calculate_score returns is in [0.0, 10.0], with the multi-factor
\* bonus and without it.
C4_ScoreInRange ==
    \A c \in Calls :
        pc[c] = "classify" => (risk_score[c] >= 0 /\ risk_score[c] <= 100)

\* A record with the bonus whose score the cap at 10.0 decides.
C4_Witness ==
    /\ pc[1] = "classify"
    /\ penalty_factors(features[1]) >= 2
    /\ risk_score[1] = 100

\* C5: the severity of a result is the one the band table gives its score
\* (critical from 7.5, high from 5.0 to below 7.5, medium from 3.0 to below 5.0,
\* low below 3.0) and its confidence is the one paired with that severity.
C5_BandTable ==
    \A c \in Calls :
        (Returned(c) /\ IsAnalysis(result[c])) =>
            LET s == result[c].risk_score
                sev == result[c].severity
                conf == result[c].confidence
            IN /\ sev \in {"critical", "high", "medium", "low"}
               /\ (sev = "critical") <=> (s >= 75)
               /\ (sev = "high") <=> (s >= 50 /\ s < 75)
               /\ (sev = "medium") <=> (s >= 30 /\ s < 50)
               /\ (sev = "low") <=> (s < 30)
               /\ (sev = "critical") => (conf = "Very High")
               /\ (sev = "high") => (conf = "Medium-High")
               /\ (sev = "medium") => (conf = "Medium")
               /\ (sev = "low") => (conf = "High")

\* A result at the lower edge of the top band.
C5_Witness ==
    /\ Returned(1)
    /\ IsAnalysis(result[1])
    /\ result[1].risk_score = 75
    /\ result[1].severity = "critical"

\* C6: preprocess_text is idempotent: applied to the text it produced, it returns
\* that text.
C6_PreprocessIdempotent ==
    \A c \in Calls :
        pc[c] = "extract" => preprocess_text(processed_text[c]) = processed_text[c]

\* A feature record with one scoring feature made larger by d.
raised_by(feats, feature, d) == [feats EXCEPT ![feature] = @ + d]

\* The amounts a feature is raised by: a ratio stays within [0, 1], a flag
\* within {0, 1}.
Increments(feature, value) ==
    IF feature \in ratio_features
    THEN {d \in {1, Scale \div 10, Scale \div 2} : value + d <= Scale}
    ELSE IF feature \in {"greeting_missing", "sense_of_urgency", "generic_greeting"}
    THEN {d \in {1} : value + d <= 1}
    ELSE IF feature \in keyword_features THEN {1, 12, 16}
    ELSE {1, 2}

\* C7: calculate_score is monotone in each scoring feature: the score of a record
\* is not above the score of the same record with one scoring feature made larger.
C7_ScoreMonotone ==
    \A c \in Calls :
        pc[c] = "classify" =>
            \A feature \in DOMAIN weights :
                \A d \in Increments(feature, features[c][feature]) :
                    calculate_score(detector[c].calculator,
                                    raised_by(features[c], feature, d)) >= risk_score[c]

\* Raising suspicious_urls from 0 to 1 switches the bonus on and the score goes up.
C7_Witness ==
    /\ pc[1] = "classify"
    /\ features[1].suspicious_urls = 0
    /\ penalty_factors(features[1]) = 1
    /\ penalty_factors(raised_by(features[1], "suspicious_urls", 1)) = 2
    /\ calculate_score(detector[1].calculator,
                       raised_by(features[1], "suspicious_urls", 1)) > risk_score[1]

\* What two outcomes of detect have in common when they differ at most in the
\* all_caps_ratio feature: both raise, both are the error response, or both are
\* an analysis with the same keyword scores, the same detected keywords and the
\* same other features, and with the same risk score if all_caps_ratio agrees too.
SameButCaps(r1, r2) ==
    \/ Raised(r1) /\ Raised(r2)
    \/ IsError(r1) /\ IsError(r2)
    \/ /\ IsAnalysis(r1)
       /\ IsAnalysis(r2)
       /\ \A f \in FeatureSchema \ {"all_caps_ratio"} : r1.features[f] = r2.features[f]
       /\ r1.detected_keywords = r2.detected_keywords
       /\ (r1.features.all_caps_ratio = r2.features.all_caps_ratio
              => r1.risk_score = r2.risk_score)

\* Uppercasing and lowercasing every character of t gives what lowercasing gives:
\* true of every ASCII text.
CaseStable(t) == \A i \in 1..Len(t) : LowerChar(UpperChar(t[i])) = LowerChar(t[i])

\* C8 as stated: for every message, detect of the message and detect of its
\* uppercase transform have the same keyword scores, detected keywords and
\* features other than all_caps_ratio.
C8_UppercaseSameFeatures ==
    \A c \in Calls :
        Finished(c) =>
            SameButCaps(result[c], detect(detector[c], upper(text[c]), 0))

\* C8, amended: the same, for every message whose characters all lowercase to the
\* same character before and after uppercasing.
C8_UppercaseSameFeaturesCaseStable ==
    \A c \in Calls :
        (Finished(c) /\ CaseStable(text[c])) =>
            SameButCaps(result[c], detect(detector[c], upper(text[c]), 0))

\* An analysis of a lowercase message with a keyword, whose uppercase transform is
\* another text.
C8_Witness ==
    /\ Returned(1)
    /\ IsAnalysis(result[1])
    /\ CaseStable(text[1])
    /\ upper(text[1]) # text[1]
    /\ result[1].features.financial_score > 0
    /\ result[1].detected_keywords.financial_keywords = <<"pin">>

\* C9: under every interleaving of the calls, a call that has ended has the
\* outcome a lone call of detect with its text has, the timestamp apart, and the
\* tables of a constructed detector are the tables of its construction.
C9_CallsIndependent ==
    \A c \in Calls :
        /\ Finished(c) =>
               \E timestamp \in Timestamps :
                   result[c] = detect(PhishingDetector, text[c], timestamp)
        /\ detector[c] # None => detector[c] = PhishingDetector

\* Two calls with different texts have both ended, one with an analysis and one
\* with an exception.
C9_Witness ==
    /\ Returned(1)
    /\ IsAnalysis(result[1])
    /\ pc[2] = "raised"

\* C10: the all_caps_ratio of a result is the ratio of uppercase letters among the
\* letters of the text the caller passed.
C10_CapsRatioOfOriginal ==
    \A c \in Calls :
        (Returned(c) /\ IsAnalysis(result[c])) =>
            result[c].features.all_caps_ratio = _calculate_caps_ratio(text[c])

\* The score before the bonus: the base score of the record, compressed by the
\* logistic curve, rounded to one decimal and held to 10.0.
compressed(self, feats) ==
    Min(100, round1(_logistic_scale(
        base_score(self, feats, DOMAIN self.weights \cap DOMAIN feats))))

\* The conditions of the multi-factor bonus that a record meets.
BonusConditions(feats) ==
    {cond \in {"suspicious_urls", "threat_score", "auth_score"} :
        IF cond = "suspicious_urls" THEN feats.suspicious_urls > 0
        ELSE feats[cond] > 20}

\* C11: calculate_score adds 1.0 to the rounded, compressed score exactly when at
\* least two of suspicious_urls > 0, threat_score > 2, auth_score > 2 hold, holds
\* the sum to 10.0, and adds nothing when fewer than two hold.
C11_BonusRule ==
    \A c \in Calls :
        pc[c] = "classify" =>
            LET before == compressed(detector[c].calculator, features[c])
                met == Cardinality(BonusConditions(features[c]))
            IN /\ met >= 2 => risk_score[c] = Min(100, before + 10)
               /\ met < 2 => risk_score[c] = before

\* A record that meets two conditions and not the third, scored one point above
\* its compressed score and below the cap.
C11_Witness ==
    /\ pc[1] = "classify"
    /\ BonusConditions(features[1]) = {"suspicious_urls", "auth_score"}
    /\ risk_score[1] = compressed(detector[1].calculator, features[1]) + 10
    /\ risk_score[1] < 100

\* The four categories: the key of the detected-keywords list, the key of the
\* score in the feature record, the table.
Categories ==
    {[list |-> "threat_keywords", score |-> "threat_score", table |-> threat_keywords],
     [list |-> "auth_keywords", score |-> "auth_score", table |-> auth_keywords],
     [list |-> "financial_keywords", score |-> "financial_score",
      table |-> financial_keywords],
     [list |-> "impersonation_keywords", score |-> "impersonation_score",
      table |-> impersonation_keywords]}

\* The word occurs in t as a token: a stretch without whitespace that spells it,
\* with whitespace or an end of the text on either side.
IsToken(t, word) ==
    \E i \in 1..Len(t) : \E j \in i..Len(t) :
        /\ Join(SubSeq(t, i, j)) = word
        /\ \A k \in i..j : ~IsSpace(t[k])
        /\ i = 1 \/ IsSpace(t[i - 1])
        /\ j = Len(t) \/ IsSpace(t[j + 1])

Elements(list) == {list[i] : i \in 1..Len(list)}

\* The sum of the table weights of the keywords of a list.
RECURSIVE SumOfList(_, _)
SumOfList(table, list) ==
    IF list = <<>> THEN 0 ELSE lookup(table, Head(list)) + SumOfList(table, Tail(list))

\* C12: in a result of detect, the detected-keywords list of each category holds
\* exactly the keywords of the category's table that are a whitespace-delimited
\* token of the normalized text, each once, the category score is the sum of the
\* weights of the keywords of the list, and the message with a detected keyword
\* written once more has the same lists and the same scores.
C12_DetectedKeywordsAreTokens ==
    \A c \in Calls :
        (Returned(c) /\ IsAnalysis(result[c])) =>
            /\ \A cat \in Categories :
                   LET list == result[c].detected_keywords[cat.list]
                   IN /\ Elements(list) =
                            {k \in keys(cat.table) : IsToken(processed_text[c], k)}
                      /\ Cardinality(Elements(list)) = Len(list)
                      /\ result[c].features[cat.score] = SumOfList(cat.table, list)
            /\ \A f \in KeywordFragments :
                   (\E cat \in Categories :
                        Join(f) \in Elements(result[c].detected_keywords[cat.list])) =>
                       LET again == preprocess_text(text[c] \o <<" ">> \o f)
                       IN /\ _extract_detected_keywords(detector[c], again)
                                 = result[c].detected_keywords
                          /\ \A cat \in Categories :
                                 extract_features(detector[c].extractor, again)[cat.score]
                                     = result[c].features[cat.score]

\* A message with one keyword written twice, a percent-encoded space between the
\* two: pin is listed once and its weight counted once.
C12_Witness ==
    /\ Returned(1)
    /\ IsAnalysis(result[1])
    /\ text[1] = <<"p", "i", "n", "%", "2", "0", "p", "i", "n">>
    /\ result[1].detected_keywords.financial_keywords = <<"pin">>
    /\ result[1].features.financial_score = 16

\* The number of entries of a url_details list with a flag set, entry by entry.
RECURSIVE FlaggedEntries(_, _)
FlaggedEntries(details, flag) ==
    IF details = <<>> THEN 0
    ELSE (IF Head(details)[flag] THEN 1 ELSE 0) + FlaggedEntries(Tail(details), flag)

\* The record-level URL counts and the flag each of them counts.
UrlCountFlags ==
    [suspicious_urls |-> "is_shortener",
     suspicious_domains |-> "has_suspicious_tld",
     ip_address_urls |-> "is_ip_address"]

\* C13: in every feature record extract_features returns, total_urls is the number
\* of URLs extracted from the text and the length of url_details, and each of
\* suspicious_urls, suspicious_domains and ip_address_urls is the number of
\* url_details entries with its flag set, so between 0 and total_urls.
C13_UrlCounts ==
    \A c \in Calls :
        pc[c] \in {"score", "classify", "done"} /\ features[c] # None =>
            LET feats == features[c]
            IN /\ feats.total_urls = Len(extract_urls(processed_text[c]))
               /\ feats.total_urls = Len(feats.url_details)
               /\ \A count \in DOMAIN UrlCountFlags :
                      /\ feats[count] =
                             FlaggedEntries(feats.url_details, UrlCountFlags[count])
                      /\ feats[count] >= 0
                      /\ feats[count] <= feats.total_urls

\* The record of a text with two URLs, a shortener and a suspicious domain: each
\* is counted once, and neither is an IP address.
C13_Witness ==
    /\ pc[1] = "score"
    /\ features[1].total_urls = 2
    /\ features[1].suspicious_urls = 1
    /\ features[1].suspicious_domains = 1
    /\ features[1].ip_address_urls = 0

=============================================================================
